---- MODULE Spec2Model ----
(***************************************************************************)
(* Model of two independent parts of the volunteer-coordination platform:  *)
(*                                                                         *)
(*   - the organization signup endpoint POST /organization/request         *)
(*     (server/src/api/routes/organization/index.ts) running against the   *)
(*     organization_account and organization_request tables of the         *)
(*     migration, with several calls in flight at once;                    *)
(*   - the VolunteerProfile page, a client state machine.                  *)
(*                                                                         *)
(* JavaScript strings are modelled as sequences of one-character strings,  *)
(* so that toLowerCase, trim, join, split and slice are computed as the    *)
(* code computes them.                                                     *)
(***************************************************************************)
EXTENDS Integers, Sequences, FiniteSets, TLC

\* Number of signup calls that can be in flight at the same time.
NumCalls == 2

\* Longest email on which the normalization is examined as a function.
MaxEmailLen == 3

(***************************************************************************)
(* Strings                                                                 *)
(***************************************************************************)

WhiteSpace == {" "}

\* String.prototype.toLowerCase on one character.
LowerOf(ch) ==
  CASE ch = "A" -> "a"
    [] ch = "B" -> "b"
    [] ch = "F" -> "f"
    [] ch = "M" -> "m"
    [] ch = "O" -> "o"
    [] ch = "Q" -> "q"
    [] OTHER -> ch

\* String.prototype.toUpperCase on one character.
UpperOf(ch) ==
  CASE ch = "a" -> "A"
    [] ch = "b" -> "B"
    [] ch = "f" -> "F"
    [] ch = "m" -> "M"
    [] ch = "o" -> "O"
    [] ch = "q" -> "Q"
    [] OTHER -> ch

ToLowerCase(s) == [i \in 1..Len(s) |-> LowerOf(s[i])]

RECURSIVE TrimStart(_)
TrimStart(s) ==
  IF s # <<>> /\ Head(s) \in WhiteSpace THEN TrimStart(Tail(s)) ELSE s

RECURSIVE TrimEnd(_)
TrimEnd(s) ==
  IF s # <<>> /\ s[Len(s)] \in WhiteSpace
  THEN TrimEnd(SubSeq(s, 1, Len(s) - 1))
  ELSE s

\* String.prototype.trim
Trim(s) == TrimEnd(TrimStart(s))

(***************************************************************************)
(* Organization signup: POST /organization/request                         *)
(***************************************************************************)

\* body.email.toLowerCase() with the trim forgotten
NormalizeEmail_NoTrim(raw) == ToLowerCase(raw)

\* body.email.trim() with the lowercasing forgotten
NormalizeEmail_NoLower(raw) == Trim(raw)

\* const email = body.email.toLowerCase().trim();
NormalizeEmail(raw) == Trim(ToLowerCase(raw))

\* Request bodies accepted by newOrganizationRequestSchema.parse: the email
\* as typed (any casing, possibly with surrounding blanks) and the url.  The
\* other columns (name, phone_number, location_name, latitude, longitude)
\* carry no constraint in organization_request and are copied verbatim.
RawEmails ==
  { <<"a">>, <<"A">>, <<" ", "B", " ">> }

Urls == {"u1", "u2"}

Bodies == [email : RawEmails, url : Urls]

Calls == 1..NumCalls

MsgAccountExists == "An organization with this email account already exists"
MsgPending == "A request with this email is already pending"
MsgInsertFailed == "Failed to create organization request"
\* the error the query builder rejects with when the insert violates a
\* unique constraint of organization_request
MsgUniqueViolation == "duplicate key value violates unique constraint"

NoBody == [email |-> <<>>, url |-> ""]
NoError == ""

\* A call that has not started: no locals, res untouched (statusCode 200,
\* nothing sent).  organization is the set holding the row returned by the
\* insert, empty while undefined.  notified counts the calls of
\* sendAdminOrganizationRequestEmail, logged those of console.error.
NoCall ==
  [pc |-> "idle", body |-> NoBody, email |-> <<>>, organization |-> {},
   resStatus |-> 200, thrown |-> NoError, json |-> FALSE,
   notified |-> 0, logged |-> 0]

\* The rows of both tables are records [email, url]: the serial id only names
\* a row, and the handler never reads it.
VARIABLES
  organization_account,   \* rows of the table organization_account
  organization_request,   \* rows of the table organization_request
  calls                   \* the signup calls: position and locals of each

serverVars == <<organization_account, organization_request, calls>>

VARIABLES
  profile,       \* useState: the server-confirmed profile, None while null
  form,          \* useState: the editable form fields
  loading, saving, fetchError, saveError, saveMessage, isEditMode,
  mounted,       \* the mount effect has run
  getPending,    \* the number of GET /volunteer/profile in flight
  putPending,    \* the bodies of the PUT /volunteer/profile in flight, in
                 \* the order they were sent
  lastOp,        \* history: the handler that ran last
  prevForm,      \* history: the form before the handler that ran last
  editSeed,      \* history: the form when editing was last entered
  lastResponse,  \* history: the profile the server answered last
  lastInput      \* history: the field and value last given to updateForm

clientVars ==
  <<profile, form, loading, saving, fetchError, saveError, saveMessage,
    isEditMode, mounted, getPending, putPending, lastOp, prevForm,
    editSeed, lastResponse, lastInput>>

vars == <<serverVars, clientVars>>

\* selectFrom('organization_account').select('id').where('email', '=', email)
SelectAccountByEmail(email) ==
  { r \in organization_account : r.email = email }

\* the pending-request lookup run against the wrong table
SelectRequestByEmail_AccountTable(email) ==
  { r \in organization_account : r.email = email }

\* selectFrom('organization_request').select('id').where('email', '=', email)
SelectRequestByEmail(email) ==
  { r \in organization_request : r.email = email }

\* organization_request with email unique only
RequestUniqueViolation_EmailOnly(row) ==
  \E r \in organization_request : r.email = row.email

\* organization_request: email unique, url unique
RequestUniqueViolation(row) ==
  \E r \in organization_request : r.email = row.email \/ r.url = row.url

\* organization_account: email unique, url unique
AccountUniqueViolation(row) ==
  \E r \in organization_account : r.email = row.email \/ r.url = row.url

\* A request reaches the handler: the body is parsed and the email
\* normalized; the call is now waiting for the account lookup.
Start(c, b) ==
  /\ calls[c].pc \in {"idle", "done"}
  /\ calls' = [calls EXCEPT ![c] =
       [NoCall EXCEPT !.pc = "checkAccount", !.body = b,
                      !.email = NormalizeEmail(b.email)]]
  /\ UNCHANGED <<organization_account, organization_request, clientVars>>

\* What is left of a call once the handler has returned or thrown: the
\* response (status, thrown error, body sent), the side effects counted, and
\* the normalized email the call was about; the other locals are gone.
Finished(call) ==
  [call EXCEPT !.pc = "done", !.body = NoBody, !.organization = {}]

\* The account lookup returns; a hit sets status 400 and throws.
CheckAccount(c) ==
  /\ calls[c].pc = "checkAccount"
  /\ LET checkAccountRequest == SelectAccountByEmail(calls[c].email) IN
       calls' = [calls EXCEPT ![c] =
         IF checkAccountRequest # {}
         THEN Finished([@ EXCEPT !.resStatus = 400,
                                  !.thrown = MsgAccountExists])
         ELSE [@ EXCEPT !.pc = "checkPending"]]
  /\ UNCHANGED <<organization_account, organization_request, clientVars>>

\* The pending-request lookup returns; a hit sets status 400 and throws.
CheckPending(c) ==
  /\ calls[c].pc = "checkPending"
  /\ LET checkPendingRequest == SelectRequestByEmail(calls[c].email) IN
       calls' = [calls EXCEPT ![c] =
         IF checkPendingRequest # {}
         THEN Finished([@ EXCEPT !.resStatus = 400,
                                  !.thrown = MsgPending])
         ELSE [@ EXCEPT !.pc = "insert"]]
  /\ UNCHANGED <<organization_account, organization_request, clientVars>>

\* The insert executes in the database: it adds the row and returns it, or
\* it is refused by a unique constraint and the awaited promise rejects.
InsertRequest(c) ==
  /\ calls[c].pc = "insert"
  /\ LET row == [email |-> calls[c].email, url |-> calls[c].body.url] IN
       IF RequestUniqueViolation(row)
       THEN /\ calls' = [calls EXCEPT ![c] =
                 Finished([@ EXCEPT !.thrown = MsgUniqueViolation])]
            /\ UNCHANGED organization_request
       ELSE /\ organization_request' = organization_request \cup {row}
            /\ calls' = [calls EXCEPT ![c] =
                 [@ EXCEPT !.organization = {row}, !.pc = "respond"]]
  /\ UNCHANGED <<organization_account, clientVars>>

\* sendAdminOrganizationRequestEmail(organization) either returns or throws.
NotifyOutcomes == {"sent", "throws"}

\* the continuation with the notification outside try/catch
Respond_NoCatch(c, outcome) ==
  /\ calls[c].pc = "respond"
  /\ calls' = [calls EXCEPT ![c] =
       IF @.organization = {}
       THEN Finished([@ EXCEPT !.thrown = MsgInsertFailed])
       ELSE IF outcome = "throws"
       THEN Finished([@ EXCEPT !.notified = @ + 1,
                               !.thrown = "Failed to send email"])
       ELSE Finished([@ EXCEPT !.notified = @ + 1, !.json = TRUE])]
  /\ UNCHANGED <<organization_account, organization_request, clientVars>>

\* the continuation deleting the inserted row when the notification throws
Respond_Rollback(c, outcome) ==
  /\ calls[c].pc = "respond"
  /\ calls' = [calls EXCEPT ![c] =
       IF @.organization = {}
       THEN Finished([@ EXCEPT !.thrown = MsgInsertFailed])
       ELSE Finished([@ EXCEPT !.notified = @ + 1,
                               !.logged = IF outcome = "throws" THEN @ + 1
                                          ELSE @,
                               !.json = TRUE])]
  /\ organization_request' =
       IF outcome = "throws"
       THEN organization_request \ calls[c].organization
       ELSE organization_request
  /\ UNCHANGED <<organization_account, clientVars>>

\* the continuation with res.json inside the try block, after the
\* notification
Respond_JsonInTry(c, outcome) ==
  /\ calls[c].pc = "respond"
  /\ calls' = [calls EXCEPT ![c] =
       IF @.organization = {}
       THEN Finished([@ EXCEPT !.thrown = MsgInsertFailed])
       ELSE Finished([@ EXCEPT !.notified = @ + 1,
                               !.logged = IF outcome = "throws" THEN @ + 1
                                          ELSE @,
                               !.json = (outcome = "sent")])]
  /\ UNCHANGED <<organization_account, organization_request, clientVars>>

\* The continuation after the insert: no row throws; otherwise the admin is
\* notified inside try/catch, a throw is logged, and {} is sent.
Respond(c, outcome) ==
  /\ calls[c].pc = "respond"
  /\ calls' = [calls EXCEPT ![c] =
       IF @.organization = {}
       THEN Finished([@ EXCEPT !.thrown = MsgInsertFailed])
       ELSE Finished([@ EXCEPT !.notified = @ + 1,
                               !.logged = IF outcome = "throws" THEN @ + 1
                                          ELSE @,
                               !.json = TRUE])]
  /\ UNCHANGED <<organization_account, organization_request, clientVars>>

\* The approval process: a pending request becomes an approved account and
\* the request is deleted, in one transaction.  The account table's unique
\* constraints refuse an account whose email or url is already taken.
Approve(r) ==
  /\ r \in organization_request
  /\ LET account == [email |-> r.email, url |-> r.url] IN
       /\ ~AccountUniqueViolation(account)
       /\ organization_account' = organization_account \cup {account}
  /\ organization_request' = organization_request \ {r}
  /\ UNCHANGED <<calls, clientVars>>

(***************************************************************************)
(* VolunteerProfile page                                                   *)
(***************************************************************************)

DESCRIPTION_MAX_LENGTH == 300

\* A string of n characters.
Rep(n) == [i \in 1..n |-> "x"]

\* An optional value (T | null | undefined) is the empty set or a singleton.
None == {}
Some(x) == {x}
Value(opt) == CHOOSE x \in opt : TRUE

\* opt ?? dflt
OrElse(opt, dflt) == IF opt = None THEN dflt ELSE Value(opt)

\* truthiness of a message (string | null): null and '' are falsy
Truthy(opt) == opt # None /\ opt # Some("")

\* value.slice(0, n)
Slice0(s, n) == SubSeq(s, 1, IF Len(s) < n THEN Len(s) ELSE n)

\* Array.prototype.join
RECURSIVE Join(_, _)
Join(list, sep) ==
  IF list = <<>> THEN <<>>
  ELSE IF Len(list) = 1 THEN list[1]
  ELSE list[1] \o sep \o Join(Tail(list), sep)

\* String.prototype.split on a one-character separator: cur is the segment
\* being read, out the segments already closed.
RECURSIVE SplitFrom(_, _, _, _)
SplitFrom(s, sep, cur, out) ==
  IF s = <<>> THEN Append(out, cur)
  ELSE IF Head(s) = sep THEN SplitFrom(Tail(s), sep, <<>>, Append(out, cur))
  ELSE SplitFrom(Tail(s), sep, Append(cur, Head(s)), out)

Split(s, sep) == SplitFrom(s, sep, <<>>, <<>>)

\* the map step without the trim
MapTrim_NoTrim(list) == list

\* .map(skill => skill.trim())
MapTrim(list) == [i \in 1..Len(list) |-> Trim(list[i])]

\* the filter step keeping every segment
FilterNonEmpty_KeepAll(list) == list

\* .filter(Boolean): the empty string is the only falsy string
RECURSIVE FilterNonEmpty(_)
FilterNonEmpty(list) ==
  IF list = <<>> THEN <<>>
  ELSE IF Head(list) = <<>> THEN FilterNonEmpty(Tail(list))
  ELSE <<Head(list)>> \o FilterNonEmpty(Tail(list))

\* parsedSkills, as a function of form.skills
ParsedSkills(skills) == FilterNonEmpty(MapTrim(Split(skills, ",")))

GetDefaultFormState(p) ==
  [description |-> OrElse(p.volunteer.description, <<>>),
   skills |-> Join(p.skills, <<",", " ">>),
   cv |-> OrElse(p.cv, <<>>),
   privacy |-> IF p.privacy = Some("private") THEN "private" ELSE "public"]

\* useState initial value of form
InitialForm ==
  [description |-> <<>>, skills |-> <<>>, cv |-> <<>>, privacy |-> "public"]

\* The gender strings and the display strings made from them.
GenderMale == <<"m", "a", "l", "e">>
GenderFemale == <<"f", "e", "m", "a", "l", "e">>
GenderOther == <<"o", "t", "h", "e", "r">>
LabelMale == <<"M", "a", "l", "e">>
LabelFemale == <<"F", "e", "m", "a", "l", "e">>
LabelOther == <<"O", "t", "h", "e", "r">>
LabelNotSpecified ==
  <<"N", "o", "t", " ", "s", "p", "e", "c", "i", "f", "i", "e", "d">>

\* formattedGender, as a function of profile?.volunteer.gender (the empty
\* string standing for a missing profile or gender as well)
FormattedGender(gender) ==
  IF gender = <<>> THEN LabelNotSpecified
  ELSE LET value == ToLowerCase(gender) IN
    IF value = GenderMale THEN LabelMale
    ELSE IF value = GenderFemale THEN LabelFemale
    ELSE IF value = GenderOther THEN LabelOther
    ELSE <<UpperOf(value[1])>> \o SubSeq(value, 2, Len(value))

\* genderBadgeStyles, as a function of profile?.volunteer.gender
GenderBadgeStyles(gender) ==
  IF gender = <<>> THEN "badge-outline"
  ELSE IF gender = GenderMale THEN "badge-info"
  ELSE IF gender = GenderFemale THEN "badge-secondary"
  ELSE "badge-accent"

\* Profiles the server may answer GET or PUT /volunteer/profile with.  The
\* gender column is a varchar without a check: besides the three known
\* values, a known value in another casing and an unknown value.
ServerProfiles ==
  { [volunteer |-> [gender |-> GenderMale, description |-> None],
     skills |-> <<>>, cv |-> None, privacy |-> None,
     unavailableFields |-> {"cv"}],
    [volunteer |-> [gender |-> GenderFemale, description |-> Some(Rep(2))],
     skills |-> << <<"a">>, <<"b">> >>, cv |-> Some(<<"c", "v">>),
     privacy |-> Some("private"), unavailableFields |-> {}],
    [volunteer |-> [gender |-> GenderOther,
                    description |-> Some(Rep(DESCRIPTION_MAX_LENGTH + 1))],
     skills |-> << <<"a", ",", "b">>, <<>>, <<"a">> >>, cv |-> None,
     privacy |-> Some("friends"), unavailableFields |-> {}],
    [volunteer |-> [gender |-> LabelMale, description |-> None],
     skills |-> <<>>, cv |-> None, privacy |-> None,
     unavailableFields |-> {}],
    [volunteer |-> [gender |-> <<"q">>, description |-> None],
     skills |-> <<>>, cv |-> None, privacy |-> None,
     unavailableFields |-> {}] }

\* What requestServer throws: an Error with a message, or something that is
\* no Error.
ThrownErrors ==
  { [isError |-> TRUE, message |-> "Request failed"],
    [isError |-> FALSE, message |-> ""] }

\* Values the user can put into each field of the form.
\* "Teaching, , First Aid,,"
ExampleSkills ==
  <<"T", "e", "a", "c", "h", "i", "n", "g", ",", " ", ",", " ",
    "F", "i", "r", "s", "t", " ", "A", "i", "d", ",", ",">>

FieldInputs(field) ==
  CASE field = "description" ->
         { <<>>, Rep(1), Rep(DESCRIPTION_MAX_LENGTH),
           <<"y">> \o Rep(DESCRIPTION_MAX_LENGTH) \o <<"z">> }
    [] field = "skills" ->
         { <<>>, <<"a">>, ExampleSkills, <<" ", "b", ",", "b">> }
    [] field = "cv" -> { <<>>, <<"c">> }
    [] field = "privacy" -> { "public", "private" }

Fields == {"description", "skills", "cv", "privacy"}



\* The page renders the profile (none of the three early returns is taken).
ProfileShown == ~loading /\ ~Truthy(fetchError) /\ profile # None

\* The gender the two display values are computed from.
ProfileGender == IF profile = None THEN <<>> ELSE Value(profile).volunteer.gender

formattedGender == FormattedGender(ProfileGender)
genderBadgeStyles == GenderBadgeStyles(ProfileGender)

\* const unavailableCv = profile.unavailableFields.includes('cv');
UnavailableCv == "cv" \in Value(profile).unavailableFields

\* No input was given to updateForm.
NoInput == [field |-> "", value |-> <<>>]

\* Every handler of the page records itself in the history and leaves the
\* signup endpoint alone. The last input is remembered through a save and
\* forgotten by anything else; the handlers that get an answer or an input
\* record it themselves.
Did(op) ==
  /\ lastOp' = op
  /\ prevForm' = form
  /\ editSeed' = IF op = "enterEdit" THEN form ELSE editSeed
  /\ IF op \in {"loadSuccess", "saveSuccess"} THEN TRUE
     ELSE lastResponse' = lastResponse
  /\ IF op = "updateForm" THEN TRUE
     ELSE lastInput' = IF op \in {"onSave", "saveFail"} THEN lastInput
                       ELSE NoInput
  /\ UNCHANGED serverVars

\* loadProfile without setFetchError(null)
LoadProfileCall_KeepError ==
  /\ loading' = TRUE
  /\ getPending' = getPending + 1
  /\ UNCHANGED <<profile, form, saving, fetchError, saveError, saveMessage,
                 isEditMode, putPending>>

\* loadProfile up to its await: loading on, fetch error cleared, GET sent.
LoadProfileCall ==
  /\ loading' = TRUE
  /\ fetchError' = None
  /\ getPending' = getPending + 1
  /\ UNCHANGED <<profile, form, saving, saveError, saveMessage, isEditMode,
                 putPending>>

\* useEffect(() => { loadProfile(); }, [loadProfile])
Mount ==
  /\ ~mounted
  /\ mounted' = TRUE
  /\ LoadProfileCall
  /\ Did("mount")

\* The Retry button of the error view.
Retry ==
  /\ ~loading /\ Truthy(fetchError)
  /\ LoadProfileCall
  /\ Did("retry")
  /\ UNCHANGED mounted

\* The GET resolves: try block continues, then finally.
LoadSuccess(response) ==
  /\ getPending > 0
  /\ getPending' = getPending - 1
  /\ lastResponse' = Some(response)
  /\ profile' = Some(response)
  /\ form' = GetDefaultFormState(response)
  /\ loading' = FALSE
  /\ Did("loadSuccess")
  /\ UNCHANGED <<saving, fetchError, saveError, saveMessage, isEditMode,
                 mounted, putPending>>

\* The GET rejects: catch, then finally.
LoadFail(error) ==
  /\ getPending > 0
  /\ getPending' = getPending - 1
  /\ fetchError' = Some(IF error.isError THEN error.message
                        ELSE "Failed to load profile")
  /\ loading' = FALSE
  /\ Did("loadFail")
  /\ UNCHANGED <<profile, form, saving, saveError, saveMessage, isEditMode,
                 mounted, putPending>>

\* The Edit Profile button: onClick={() => setIsEditMode(true)}
EnterEdit ==
  /\ ProfileShown /\ ~isEditMode
  /\ isEditMode' = TRUE
  /\ Did("enterEdit")
  /\ UNCHANGED <<profile, form, loading, saving, fetchError, saveError,
                 saveMessage, mounted, getPending, putPending>>

\* the controls with the CV input disabled only while saving
ControlEnabled_CvAlways(field) == ProfileShown /\ isEditMode /\ ~saving

\* The editor control of a field is rendered and enabled.
ControlEnabled(field) ==
  /\ ProfileShown /\ isEditMode /\ ~saving
  /\ field = "cv" => ~UnavailableCv

\* updateForm that stores the value as given
UpdateForm_NoSlice(field, value) ==
  /\ ControlEnabled(field)
  /\ form' = [form EXCEPT ![field] = value]
  /\ lastInput' = [field |-> field, value |-> value]
  /\ saveError' = None
  /\ saveMessage' = None
  /\ Did("updateForm")
  /\ UNCHANGED <<profile, loading, saving, fetchError, isEditMode, mounted,
                 getPending, putPending>>

\* updateForm, called by the change handlers of the enabled controls.
UpdateForm(field, value) ==
  /\ ControlEnabled(field)
  /\ LET nextValue == IF field = "description"
                      THEN Slice0(value, DESCRIPTION_MAX_LENGTH)
                      ELSE value IN
       form' = [form EXCEPT ![field] = nextValue]
  /\ lastInput' = [field |-> field, value |-> value]
  /\ saveError' = None
  /\ saveMessage' = None
  /\ Did("updateForm")
  /\ UNCHANGED <<profile, loading, saving, fetchError, isEditMode, mounted,
                 getPending, putPending>>

\* The body of the PUT, serialized from the form.
SaveBody ==
  [description |-> form.description,
   skills |-> ParsedSkills(form.skills),
   cv |-> IF form.cv = <<>> THEN None ELSE Some(form.cv),
   privacy |-> form.privacy]

\* onSave without setSaveMessage(null)
OnSave_KeepMessage ==
  /\ ProfileShown /\ isEditMode /\ ~saving
  /\ ~(~isEditMode \/ profile = None)
  /\ saving' = TRUE
  /\ saveError' = None
  /\ putPending' = Append(putPending, SaveBody)
  /\ Did("onSave")
  /\ UNCHANGED <<profile, form, loading, fetchError, saveMessage, isEditMode,
                 mounted, getPending>>

\* onSave behind a Save Changes button that is not disabled while saving
OnSave_NotDisabled ==
  /\ ProfileShown /\ isEditMode
  /\ ~(~isEditMode \/ profile = None)
  /\ saving' = TRUE
  /\ saveError' = None
  /\ saveMessage' = None
  /\ putPending' = Append(putPending, SaveBody)
  /\ Did("onSave")
  /\ UNCHANGED <<profile, form, loading, fetchError, isEditMode, mounted,
                 getPending>>

\* onSave up to its await (Save Changes is rendered in edit mode and
\* disabled while saving).
OnSave ==
  /\ ProfileShown /\ isEditMode /\ ~saving
  /\ ~(~isEditMode \/ profile = None)
  /\ saving' = TRUE
  /\ saveError' = None
  /\ saveMessage' = None
  /\ putPending' = Append(putPending, SaveBody)
  /\ Did("onSave")
  /\ UNCHANGED <<profile, form, loading, fetchError, isEditMode, mounted,
                 getPending>>

\* The sequence without its i-th element.
Without(seq, i) == SubSeq(seq, 1, i - 1) \o SubSeq(seq, i + 1, Len(seq))

\* onSave's try block without setIsEditMode(false)
SaveSuccess_KeepEditing(i, response) ==
  /\ i \in 1..Len(putPending)
  /\ putPending' = Without(putPending, i)
  /\ lastResponse' = Some(response)
  /\ profile' = Some(response)
  /\ form' = GetDefaultFormState(response)
  /\ saveMessage' = Some("Profile changes saved.")
  /\ saving' = FALSE
  /\ Did("saveSuccess")
  /\ UNCHANGED <<loading, fetchError, saveError, isEditMode, mounted,
                 getPending>>

\* onSave's try block without setForm
SaveSuccess_NoSetForm(i, response) ==
  /\ i \in 1..Len(putPending)
  /\ putPending' = Without(putPending, i)
  /\ lastResponse' = Some(response)
  /\ profile' = Some(response)
  /\ saveMessage' = Some("Profile changes saved.")
  /\ isEditMode' = FALSE
  /\ saving' = FALSE
  /\ Did("saveSuccess")
  /\ UNCHANGED <<form, loading, fetchError, saveError, mounted, getPending>>

\* The i-th PUT in flight resolves: try block continues, then finally.
SaveSuccess(i, response) ==
  /\ i \in 1..Len(putPending)
  /\ putPending' = Without(putPending, i)
  /\ lastResponse' = Some(response)
  /\ profile' = Some(response)
  /\ form' = GetDefaultFormState(response)
  /\ saveMessage' = Some("Profile changes saved.")
  /\ isEditMode' = FALSE
  /\ saving' = FALSE
  /\ Did("saveSuccess")
  /\ UNCHANGED <<loading, fetchError, saveError, mounted, getPending>>

\* onSave's catch block without the message
SaveFail_NoMessage(i, error) ==
  /\ i \in 1..Len(putPending)
  /\ putPending' = Without(putPending, i)
  /\ saving' = FALSE
  /\ Did("saveFail")
  /\ UNCHANGED <<profile, form, loading, fetchError, saveError, saveMessage,
                 isEditMode, mounted, getPending>>

\* The i-th PUT in flight rejects: catch, then finally.
SaveFail(i, error) ==
  /\ i \in 1..Len(putPending)
  /\ putPending' = Without(putPending, i)
  /\ saveError' = Some(IF error.isError THEN error.message
                       ELSE "Failed to save profile")
  /\ saving' = FALSE
  /\ Did("saveFail")
  /\ UNCHANGED <<profile, form, loading, fetchError, saveMessage, isEditMode,
                 mounted, getPending>>

\* onCancelEdit that leaves the form as edited
OnCancelEdit_KeepForm ==
  /\ ProfileShown /\ isEditMode /\ ~saving
  /\ profile # None
  /\ isEditMode' = FALSE
  /\ saveError' = None
  /\ saveMessage' = None
  /\ Did("onCancelEdit")
  /\ UNCHANGED <<profile, form, loading, saving, fetchError, mounted,
                 getPending, putPending>>

\* The Cancel button (rendered in edit mode, disabled while saving).
OnCancelEdit ==
  /\ ProfileShown /\ isEditMode /\ ~saving
  /\ profile # None
  /\ form' = GetDefaultFormState(Value(profile))
  /\ isEditMode' = FALSE
  /\ saveError' = None
  /\ saveMessage' = None
  /\ Did("onCancelEdit")
  /\ UNCHANGED <<profile, loading, saving, fetchError, mounted, getPending,
                 putPending>>

(***************************************************************************)
(* Specifications                                                          *)
(***************************************************************************)

ServerInit ==
  /\ organization_account = {}
  /\ organization_request = {}
  /\ calls = [c \in Calls |-> NoCall]

ClientInit ==
  /\ profile = None
  /\ form = InitialForm
  /\ loading = TRUE
  /\ saving = FALSE
  /\ fetchError = None
  /\ saveError = None
  /\ saveMessage = None
  /\ isEditMode = FALSE
  /\ mounted = FALSE
  /\ getPending = 0
  /\ putPending = <<>>
  /\ lastOp = "init"
  /\ prevForm = InitialForm
  /\ editSeed = InitialForm
  /\ lastResponse = None
  /\ lastInput = NoInput

Init == ServerInit /\ ClientInit

SignupNext ==
  \/ \E c \in Calls, b \in Bodies : Start(c, b)
  \/ \E c \in Calls : CheckAccount(c)
  \/ \E c \in Calls : CheckPending(c)
  \/ \E c \in Calls : InsertRequest(c)
  \/ \E c \in Calls, outcome \in NotifyOutcomes : Respond(c, outcome)
  \/ \E r \in organization_request : Approve(r)

ProfileNext ==
  \/ Mount
  \/ Retry
  \/ \E response \in ServerProfiles : LoadSuccess(response)
  \/ \E error \in ThrownErrors : LoadFail(error)
  \/ EnterEdit
  \/ \E field \in Fields : \E value \in FieldInputs(field) :
       UpdateForm(field, value)
  \/ OnSave
  \/ \E i \in 1..Len(putPending), response \in ServerProfiles :
       SaveSuccess(i, response)
  \/ \E i \in 1..Len(putPending), error \in ThrownErrors : SaveFail(i, error)
  \/ OnCancelEdit

\* The signup endpoint with NumCalls calls in flight and the approval process.
SignupSpec == Init /\ [][SignupNext]_vars

\* The VolunteerProfile page.
ProfileSpec == Init /\ [][ProfileNext]_vars

\* The signup endpoint with every awaited database operation answering and
\* every continuation of a call being run: no step of a call that is in
\* flight stays enabled forever without being taken.  Requests themselves
\* and approvals are not forced.
SignupFairSpec ==
  /\ SignupSpec
  /\ \A c \in Calls :
       /\ WF_vars(CheckAccount(c))
       /\ WF_vars(CheckPending(c))
       /\ WF_vars(InsertRequest(c))
       /\ WF_vars(\E outcome \in NotifyOutcomes : Respond(c, outcome))

Next == SignupNext \/ ProfileNext

Spec == Init /\ [][Next]_vars

(***************************************************************************)
(* Properties of the signup endpoint                                       *)
(***************************************************************************)

\* raw is the email e in some casing, blanks around either one aside
CasingOf(raw, e) == Trim(ToLowerCase(raw)) = Trim(ToLowerCase(e))

\* Call c takes the step that leaves position pc.
Leaves(c, pc) == calls[c].pc = pc /\ calls'[c].pc # pc

TablesUnchanged ==
  /\ organization_account' = organization_account
  /\ organization_request' = organization_request

\* The response of call c is the 400 conflict carrying msg, and nothing else
\* was done for it: no body sent, no admin notified.
RejectedWith(call, msg) ==
  /\ call.pc = "done"
  /\ call.resStatus = 400
  /\ call.thrown = msg
  /\ ~call.json
  /\ call.notified = 0

\* C1: when the account lookup of a call runs while an approved account holds
\* the call's email in any casing, the call ends there with status 400 and
\* 'An organization with this email account already exists', whether or not
\* a pending request holds that email too, and neither table changes.
C1_AccountExistsRejected ==
  [][\A c \in Calls :
       ( /\ Leaves(c, "checkAccount")
         /\ \E a \in organization_account :
              CasingOf(calls[c].body.email, a.email) )
       => /\ RejectedWith(calls'[c], MsgAccountExists)
          /\ TablesUnchanged]_vars

\* A call was rejected with the account-exists error while its email was held
\* by an approved account and by a pending request at once.
C1_Witness ==
  \E c \in Calls :
    /\ RejectedWith(calls[c], MsgAccountExists)
    /\ \E a \in organization_account : a.email = calls[c].email
    /\ \E r \in organization_request : r.email = calls[c].email

\* C2: a call whose account lookup finds no account goes on to the pending
\* lookup, and when that lookup runs while a pending request holds the
\* call's email in any casing, the call ends with status 400 and 'A request
\* with this email is already pending', and neither table changes.
C2_PendingRejected ==
  [][\A c \in Calls :
       /\ ( /\ Leaves(c, "checkAccount")
            /\ ~\E a \in organization_account :
                 CasingOf(calls[c].body.email, a.email) )
          => calls'[c].pc = "checkPending" /\ TablesUnchanged
       /\ ( /\ Leaves(c, "checkPending")
            /\ \E r \in organization_request :
                 CasingOf(calls[c].body.email, r.email) )
          => /\ RejectedWith(calls'[c], MsgPending)
             /\ TablesUnchanged]_vars

\* Two signups with the same email: the first was answered 200 {}, the second
\* the pending-request error, the first one's row is the only row and no
\* account holds the email.
C2_Witness ==
  /\ calls[1].pc = "done" /\ calls[1].json /\ calls[1].resStatus = 200
  /\ calls[1].thrown = NoError
  /\ RejectedWith(calls[2], MsgPending)
  /\ calls[2].email = calls[1].email
  /\ organization_account = {}
  /\ Cardinality(organization_request) = 1
  /\ \A r \in organization_request : r.email = calls[1].email

\* The response of a finished call is the success response 200 {}.
Success(call) ==
  /\ call.pc = "done"
  /\ call.json
  /\ call.resStatus = 200
  /\ call.thrown = NoError

\* The row the insert of call c asks for: the email as typed, lowercased and
\* trimmed, with the supplied fields.
RowOf(c) ==
  [email |-> Trim(ToLowerCase(calls[c].body.email)), url |-> calls[c].body.url]

\* Call c's insert adds exactly its row, and the call goes on to respond.
InsertsItsRow(c) ==
  /\ organization_request' = organization_request \cup {RowOf(c)}
  /\ Cardinality(organization_request') = Cardinality(organization_request) + 1
  /\ organization_account' = organization_account
  /\ calls'[c].pc = "respond"
  /\ calls'[c].organization = {RowOf(c)}

\* Whatever the notification does, the continuation after a successful insert
\* answers 200 {} and leaves the tables as they are.
RespondsSuccess(c) ==
  Leaves(c, "respond") => Success(calls'[c]) /\ TablesUnchanged

\* C3 as claimed: when the insert of a call runs while neither an approved
\* account nor a pending request holds the call's email, the call creates
\* exactly one pending request row and answers 200 {}.
C3_AsClaimed ==
  [][\A c \in Calls :
       /\ ( /\ Leaves(c, "insert")
            /\ ~\E a \in organization_account :
                 CasingOf(calls[c].body.email, a.email)
            /\ ~\E r \in organization_request :
                 CasingOf(calls[c].body.email, r.email) )
          => InsertsItsRow(c)
       /\ RespondsSuccess(c)]_vars

\* C3, amended: when the insert of a call runs while no pending request holds
\* the call's email or the supplied url, the call creates exactly one pending
\* request row, holding the normalized email and the supplied fields, and it
\* then answers 200 {} even if the admin notification throws.
C3_InsertThenSuccess ==
  [][\A c \in Calls :
       /\ ( /\ Leaves(c, "insert")
            /\ ~\E r \in organization_request :
                 \/ CasingOf(calls[c].body.email, r.email)
                 \/ r.url = calls[c].body.url )
          => InsertsItsRow(c)
       /\ RespondsSuccess(c)]_vars

\* A call was answered 200 {} although its notification threw (and was
\* logged), and its row is the one pending request.
C3_Witness ==
  \E c \in Calls :
    /\ Success(calls[c])
    /\ calls[c].notified = 1 /\ calls[c].logged = 1
    /\ Cardinality(organization_request) = 1
    /\ \A r \in organization_request : r.email = calls[c].email

\* C4: no email is held by an approved account and by a pending request at
\* the same time.
C4_NoEmailInBothTables ==
  \A a \in organization_account, r \in organization_request :
    a.email # r.email

\* C5: the pending requests never hold an email twice; a call whose insert
\* runs while another call for the same email has inserted and not yet
\* answered is refused (so that at most one of them answers 200 {}); and a
\* refused insert ends the call with an error that is neither 400 conflict.
C5_AtMostOneSuccess ==
  [][\A c \in Calls :
       /\ \A r1, r2 \in organization_request' :
            r1.email = r2.email => r1 = r2
       /\ ( /\ Leaves(c, "insert")
            /\ \E d \in Calls \ {c} :
                 /\ calls[d].pc = "respond"
                 /\ calls[d].email = calls[c].email )
          => calls'[c].pc = "done"
       /\ (Leaves(c, "insert") /\ calls'[c].pc = "done")
          => /\ calls'[c].thrown \notin {NoError, MsgAccountExists, MsgPending}
             /\ calls'[c].resStatus # 400
             /\ ~calls'[c].json
             /\ TablesUnchanged]_vars

\* The email carries no upper-case letter and no blank at either end.
IsNormalized(e) ==
  /\ \A i \in 1..Len(e) : e[i] \notin {"A", "B"}
  /\ e # <<>> => e[1] \notin WhiteSpace /\ e[Len(e)] \notin WhiteSpace

EmailChars == {"a", "A", "B", " "}

\* Every string of at most MaxEmailLen characters.
EmailStrings == UNION { [1..n -> EmailChars] : n \in 0..MaxEmailLen }

\* Normalizing is idempotent on every string, and its result is normalized.
\* (A fact about the function alone, examined in the initial state.)
NormalizeIdempotent ==
  (\A c \in Calls : calls[c].pc = "idle")
  => \A e \in EmailStrings :
       /\ NormalizeEmail(NormalizeEmail(e)) = NormalizeEmail(e)
       /\ IsNormalized(NormalizeEmail(e))

\* C6: normalizing an email twice gives what normalizing it once gives; the
\* email a call works with is its body's email lowercased and trimmed, and
\* normalizing it again changes nothing; and every pending request
\* row, and the row a call got back from its insert, holds a normalized
\* email.
C6_NormalizedEmailOnly ==
  /\ NormalizeIdempotent
  /\ \A c \in Calls :
       /\ calls[c].pc \notin {"idle", "done"}
          => calls[c].email = Trim(ToLowerCase(calls[c].body.email))
       /\ IsNormalized(calls[c].email)
       /\ NormalizeEmail(calls[c].email) = calls[c].email
       /\ \A row \in calls[c].organization : row.email = calls[c].email
  /\ \A r \in organization_request :
       IsNormalized(r.email) /\ NormalizeEmail(r.email) = r.email

\* A row was stored for an email typed with blanks around an upper-case
\* letter, while the call that typed it is still running.
C6_Witness ==
  \E c \in Calls :
    /\ calls[c].pc = "respond"
    /\ calls[c].body.email = <<" ", "B", " ">>
    /\ [email |-> <<"b">>, url |-> calls[c].body.url] \in organization_request

\* The row was inserted: it is pending, or approval has made it an account.
WasInserted(row) ==
  row \in organization_request \/ row \in organization_account

\* C7: a call notifies the admin at most once, only in the continuation that
\* follows its insert, with the inserted row in hand; a call rejected by a
\* conflict check never notifies; and the notification step, failing or not,
\* leaves both tables as they are.
C7_NotifyAfterInsertOnly ==
  [][\A c \in Calls :
       /\ calls'[c].notified <= 1
       /\ calls'[c].notified # calls[c].notified /\ calls'[c].notified # 0
          => /\ calls[c].pc = "respond"
             /\ calls[c].organization # {}
             /\ \A row \in calls[c].organization : WasInserted(row)
             /\ TablesUnchanged
       /\ calls'[c].resStatus = 400 => calls'[c].notified = 0]_vars

\* The notification of a call threw and was logged, and the call's row is
\* still pending.
C7_Witness ==
  \E c \in Calls :
    /\ calls[c].pc = "done"
    /\ calls[c].notified = 1 /\ calls[c].logged = 1
    /\ \E r \in organization_request : r.email = calls[c].email

\* The response of a finished call is an unexpected failure: an error other
\* than the two conflicts, with no 400 status set and no body sent.
UnexpectedFailure(call) ==
  /\ call.pc = "done"
  /\ call.thrown \notin {NoError, MsgAccountExists, MsgPending}
  /\ call.resStatus # 400
  /\ ~call.json

\* How many of the four outcomes the response of a call is.
OutcomeCount(call) ==
  Cardinality({ k \in 1..4 :
    \/ k = 1 /\ Success(call)
    \/ k = 2 /\ RejectedWith(call, MsgAccountExists)
    \/ k = 3 /\ RejectedWith(call, MsgPending)
    \/ k = 4 /\ UnexpectedFailure(call) })

\* C8: a call that ends has exactly one of the four outcomes; it answers
\* 200 {} exactly if it inserted a row itself; only the insert step of a call
\* adds a row; and an insert refused for the url alone ends the call with an
\* unexpected failure.
C8_OneOutcome ==
  [][\A c \in Calls :
       /\ (calls[c].pc # "done" /\ calls'[c].pc = "done")
          => /\ OutcomeCount(calls'[c]) = 1
             /\ Success(calls'[c]) <=> calls[c].organization # {}
       /\ calls'[c].organization # calls[c].organization
          /\ calls'[c].organization # {}
          => /\ Leaves(c, "insert")
             /\ calls'[c].organization =
                  organization_request' \ organization_request
       /\ ~(organization_request' \subseteq organization_request)
          => \E d \in Calls : Leaves(d, "insert")
       /\ ( /\ Leaves(c, "insert")
            /\ \E r \in organization_request : r.url = calls[c].body.url
            /\ ~\E r \in organization_request :
                 CasingOf(calls[c].body.email, r.email) )
          => UnexpectedFailure(calls'[c]) /\ TablesUnchanged]_vars

\* A call ended with an unexpected failure because its url was taken by the
\* pending request of another email.
C8_Witness ==
  \E c \in Calls :
    /\ UnexpectedFailure(calls[c])
    /\ calls[c].thrown = MsgUniqueViolation
    /\ organization_request # {}
    /\ \A r \in organization_request : r.email # calls[c].email

(***************************************************************************)
(* Properties of the VolunteerProfile page                                 *)
(***************************************************************************)

NoRequestSent == getPending' = getPending /\ putPending' = putPending

\* C9: Cancel puts every form field back to the value derived from the
\* server-confirmed profile, which is the value it had when editing was
\* entered, returns the view to viewing, leaves the confirmed profile as it
\* is and sends no request.
C9_CancelRestores ==
  [][lastOp' = "onCancelEdit"
     => /\ form' = GetDefaultFormState(Value(profile))
        /\ form' = editSeed
        /\ ~isEditMode'
        /\ profile' = profile
        /\ NoRequestSent]_vars

\* An edit that had changed all four fields was cancelled.
C9_Witness ==
  /\ lastOp = "onCancelEdit"
  /\ ~isEditMode
  /\ prevForm.description # form.description
  /\ prevForm.skills # form.skills
  /\ prevForm.cv # form.cv
  /\ prevForm.privacy # form.privacy

\* C10: while a save is in progress the form and the confirmed profile do not
\* change unless the save succeeds, and when the save fails the editor is
\* still in editing mode with a non-empty save error, the saving flag is
\* cleared, and form and confirmed profile are what they were.
C10_SaveFailKeepsEdits ==
  [][/\ (saving /\ lastOp' # "saveSuccess")
        => form' = form /\ profile' = profile /\ isEditMode' = isEditMode
     /\ lastOp' = "saveFail"
        => /\ saving /\ ~saving'
           /\ isEditMode'
           /\ Truthy(saveError')
           /\ saveMessage' = None
           /\ form' = form
           /\ profile' = profile]_vars

\* A save failed on a form that differs from the confirmed profile in every
\* field, and the edits are still there.
C10_Witness ==
  /\ lastOp = "saveFail"
  /\ isEditMode /\ ~saving /\ Truthy(saveError)
  /\ LET confirmed == GetDefaultFormState(Value(profile)) IN
       /\ form.description # confirmed.description
       /\ form.skills # confirmed.skills
       /\ form.cv # confirmed.cv
       /\ form.privacy # confirmed.privacy

\* C11: a save that succeeds puts the profile the PUT returned in place of
\* the confirmed profile, derives the form again from that returned profile,
\* sets the success message, clears the saving flag and goes back to viewing.
C11_SaveSuccessAdopts ==
  [][lastOp' = "saveSuccess"
     => /\ saving
        /\ lastResponse' # None
        /\ profile' = lastResponse'
        /\ form' = GetDefaultFormState(Value(lastResponse'))
        /\ saveMessage' = Some("Profile changes saved.")
        /\ saveError' = None
        /\ ~saving'
        /\ ~isEditMode']_vars

\* A save succeeded with a profile that differs from the confirmed one and
\* from what the form held.
C11_Witness ==
  /\ lastOp = "saveSuccess"
  /\ profile = lastResponse
  /\ form # prevForm
  /\ form = GetDefaultFormState(Value(profile))
  /\ saveMessage = Some("Profile changes saved.")
  /\ ~saving /\ ~isEditMode

\* C12: whenever a profile is loaded and the page is viewing, the form
\* fields are getDefaultFormState(profile), so that every entry into
\* editing starts from the values the server confirmed, never from edits
\* that were not saved.
C12_EditSeededFromProfile ==
  /\ (profile # None /\ ~isEditMode)
       => form = GetDefaultFormState(Value(profile))
  /\ isEditMode
       => /\ profile # None
          /\ profile = lastResponse
          /\ editSeed = GetDefaultFormState(Value(profile))

\* Editing was entered on a profile that has a description, with the form
\* at the confirmed values.
C12_Witness ==
  /\ lastOp = "enterEdit"
  /\ isEditMode
  /\ profile # None
  /\ Value(profile).volunteer.description # None
  /\ form = GetDefaultFormState(Value(profile))
  /\ form = editSeed

\* The first n characters of s, all of s when it is shorter.
FirstChars(s, n) == [i \in 1..(IF Len(s) < n THEN Len(s) ELSE n) |-> s[i]]

\* C13: a description input longer than DESCRIPTION_MAX_LENGTH is cut by
\* updateForm to exactly its first DESCRIPTION_MAX_LENGTH characters, and
\* the save that follows submits the form's description as it stands, hence
\* the cut value.
C13_DescriptionTruncated ==
  [][/\ (lastOp' = "updateForm" /\ lastInput'.field = "description")
          => /\ form'.description
                  = FirstChars(lastInput'.value, DESCRIPTION_MAX_LENGTH)
             /\ Len(lastInput'.value) > DESCRIPTION_MAX_LENGTH
                  => Len(form'.description) = DESCRIPTION_MAX_LENGTH
     /\ lastOp' = "onSave"
          => /\ putPending' # <<>>
             /\ putPending'[Len(putPending')].description = form.description
             /\ (lastInput.field = "description"
                   => form.description
                        = FirstChars(lastInput.value, DESCRIPTION_MAX_LENGTH))
    ]_vars

\* A description two characters too long was typed and the save right after
\* it submitted its first DESCRIPTION_MAX_LENGTH characters.
C13_Witness ==
  /\ lastOp = "onSave"
  /\ lastInput.field = "description"
  /\ Len(lastInput.value) = DESCRIPTION_MAX_LENGTH + 2
  /\ Len(putPending) = 1
  /\ putPending[1].description
       = <<"y">> \o Rep(DESCRIPTION_MAX_LENGTH - 1)

\* The positions of the commas of s, and the positions its segments start
\* after: the start of the string and each comma.
CommaPositions(s) == {i \in 1..Len(s) : s[i] = ","}
SegmentStarts(s) == {0} \cup CommaPositions(s)

\* The k-th segment start, in increasing order.
KthStart(s, k) ==
  CHOOSE p \in SegmentStarts(s) :
    Cardinality({q \in SegmentStarts(s) : q < p}) = k - 1

\* The segment that starts after position p: up to the next comma or the end.
SegmentAfter(s, p) ==
  LET ends == {q \in CommaPositions(s) \cup {Len(s) + 1} : q > p}
      e == CHOOSE q \in ends : \A r \in ends : q <= r
  IN SubSeq(s, p + 1, e - 1)

\* A segment without the blanks around it.
Trimmed(seg) ==
  LET inked == {i \in 1..Len(seg) : seg[i] \notin WhiteSpace} IN
  IF inked = {} THEN <<>>
  ELSE SubSeq(seg, CHOOSE i \in inked : \A j \in inked : i <= j,
                   CHOOSE i \in inked : \A j \in inked : j <= i)

\* The comma-split of s, each segment trimmed, the empty ones discarded,
\* order and duplicates kept.
ExpectedSkills(s) ==
  LET n == Cardinality(SegmentStarts(s))
      segs == [k \in 1..n |-> Trimmed(SegmentAfter(s, KthStart(s, k)))]
  IN SelectSeq(segs, LAMBDA seg : seg # <<>>)

\* ["Teaching", "First Aid"]
ExampleParsed ==
  << <<"T", "e", "a", "c", "h", "i", "n", "g">>,
     <<"F", "i", "r", "s", "t", " ", "A", "i", "d">> >>

\* C14: the parsed skill list is the comma-split of the skills string with
\* each segment trimmed and the empty segments discarded, order and
\* duplicates kept; "Teaching, , First Aid,," gives ["Teaching",
\* "First Aid"]; and the parsed list is what a save submits as skills.
C14_ParsedSkills ==
  /\ ParsedSkills(form.skills) = ExpectedSkills(form.skills)
  /\ form.skills = ExampleSkills => ParsedSkills(form.skills) = ExampleParsed
  /\ \A i \in 1..Len(putPending) :
        putPending[i].skills = ExpectedSkills(form.skills)

\* The example string was typed and saved: the request carries the two
\* skills.
C14_Witness ==
  /\ form.skills = ExampleSkills
  /\ Len(putPending) = 1
  /\ putPending[1].skills = ExampleParsed

\* The two ends of a load.
LoadedEnd == ~loading /\ profile # None /\ fetchError = None
ErrorEnd == ~loading /\ Truthy(fetchError) /\ profile = None

\* C15: the page starts in loading; each load ends in exactly one of error
\* (fetchError set, loading false) and loaded (profile set, loading false);
\* Retry from error goes back to loading with the previous error cleared; and
\* in no reachable state are a fetch error and a loaded profile both present.
C15_LoadStates ==
  [][/\ lastOp = "init" => (loading /\ profile = None /\ fetchError = None)
     /\ ~(fetchError # None /\ profile # None)
     /\ ~(fetchError' # None /\ profile' # None)
     /\ lastOp' = "loadSuccess" => (loading /\ LoadedEnd' /\ ~ErrorEnd')
     /\ lastOp' = "loadFail" => (loading /\ ErrorEnd' /\ ~LoadedEnd')
     /\ lastOp' = "retry"
          => /\ ErrorEnd
             /\ loading' /\ fetchError' = None /\ profile' = None
             /\ getPending' = 1]_vars

\* Retry was pressed in the error view: the page is loading again, the error
\* is cleared and one GET is in flight.
C15_Witness ==
  /\ lastOp = "retry"
  /\ loading
  /\ fetchError = None
  /\ profile = None
  /\ getPending = 1

\* The error response of a call whose handler threw: the rejected promise of
\* the handler is answered by the framework's error handling, once.
ErrorResponse(call) == IF call.thrown # NoError THEN 1 ELSE 0

\* The responses sent for a call: res.json by the handler, or the error
\* response.
ResponseCount(call) == (IF call.json THEN 1 ELSE 0) + ErrorResponse(call)

InFlight(call) == call.pc \notin {"idle", "done"}

\* C16: every signup call is handled to completion: when the database
\* operations and the continuations are scheduled fairly, a call in flight
\* eventually ends having sent exactly one response, the success response or
\* an error, the calls that throw after a conflict check or a failed insert
\* included; and no response is sent before the call ends.
C16_EveryCallAnswered ==
  /\ [](\A c \in Calls :
          /\ InFlight(calls[c]) => ResponseCount(calls[c]) = 0
          /\ calls[c].pc = "done" => ResponseCount(calls[c]) = 1)
  /\ \A c \in Calls :
       InFlight(calls[c])
         ~> (calls[c].pc = "done" /\ ResponseCount(calls[c]) = 1)

\* Two ways a call ends are present at once in the history of the
\* calls: one call ended with an error response after a throw, the other with
\* the success response.
C16_Witness ==
  /\ \E c \in Calls :
       /\ calls[c].pc = "done"
       /\ calls[c].thrown = MsgUniqueViolation
       /\ ResponseCount(calls[c]) = 1
  /\ \E c \in Calls :
       /\ calls[c].pc = "done"
       /\ calls[c].json
       /\ ResponseCount(calls[c]) = 1

\* C17: when the server reports 'cv' in unavailableFields, the user cannot
\* change the CV field of the form in editing mode, while description,
\* skills and privacy can still be edited and saved; the unavailability
\* disables neither entering editing nor saving.
C17_UnavailableCv ==
  (profile # None /\ UnavailableCv)
  => /\ lastOp \in {"updateForm", "enterEdit", "onSave", "saveFail"}
          => form.cv = prevForm.cv
     /\ lastOp = "updateForm"
          => /\ lastInput.field # "cv"
             /\ lastInput.field = "privacy" => form.privacy = lastInput.value
             /\ lastInput.field = "skills" => form.skills = lastInput.value
     /\ \A v \in FieldInputs("cv") : ~ENABLED UpdateForm("cv", v)
     /\ (ProfileShown /\ ~isEditMode) => ENABLED EnterEdit
     /\ (ProfileShown /\ isEditMode /\ ~saving)
          => /\ ENABLED OnSave
             /\ \A field \in Fields \ {"cv"} :
                  \A v \in FieldInputs(field) : ENABLED UpdateForm(field, v)

\* With the CV unavailable, description, skills and privacy were all changed
\* and the save was sent, the CV field being what editing started with.
C17_Witness ==
  /\ profile # None
  /\ UnavailableCv
  /\ lastOp = "onSave"
  /\ Len(putPending) = 1
  /\ form.description # editSeed.description
  /\ form.skills # editSeed.skills
  /\ form.privacy # editSeed.privacy
  /\ form.cv = editSeed.cv

\* C18: in every reachable state the description of the form has at most
\* DESCRIPTION_MAX_LENGTH characters, and so has the description of every
\* PUT /volunteer/profile body, also when the form was seeded from a profile
\* the server returned rather than typed.
C18_DescriptionBounded ==
  /\ Len(form.description) <= DESCRIPTION_MAX_LENGTH
  /\ \A i \in 1..Len(putPending) :
        Len(putPending[i].description) <= DESCRIPTION_MAX_LENGTH

\* A skills list that the form string can carry: every skill is non-empty,
\* has no comma, and neither starts nor ends with a blank.
CleanSkills(list) ==
  \A i \in 1..Len(list) :
    /\ list[i] # <<>>
    /\ \A j \in 1..Len(list[i]) : list[i][j] # ","
    /\ list[i][1] \notin WhiteSpace
    /\ list[i][Len(list[i])] \notin WhiteSpace

\* A save of a form that is still what editing started with.
UnchangedSave == saving /\ isEditMode /\ form = editSeed /\ profile # None

\* C19 as stated: for every skills list the server returns, parsing the form
\* string built by joining it with ', ' gives the list back, so that a save
\* without any change submits exactly the confirmed list.
C19_AsClaimed ==
  /\ profile # None
       => ParsedSkills(GetDefaultFormState(Value(profile)).skills)
            = Value(profile).skills
  /\ UnchangedSave
       => \A i \in 1..Len(putPending) :
            putPending[i].skills = Value(profile).skills

\* C19: for every server-returned skills list whose elements are non-empty,
\* free of commas and without blanks around them, parsing the form string
\* built by joining it with ', ' gives the list back (same elements, same
\* order, same count), and a save without any change submits exactly that
\* list.
C19_CleanSkillsRoundTrip ==
  (profile # None /\ CleanSkills(Value(profile).skills))
  => /\ ParsedSkills(GetDefaultFormState(Value(profile)).skills)
          = Value(profile).skills
     /\ UnchangedSave
          => \A i \in 1..Len(putPending) :
               putPending[i].skills = Value(profile).skills

\* Editing was entered on a clean list of two skills and saved untouched:
\* the request carries the two skills.
C19_Witness ==
  /\ UnchangedSave
  /\ lastOp = "onSave"
  /\ CleanSkills(Value(profile).skills)
  /\ Len(Value(profile).skills) = 2
  /\ Len(putPending) = 1
  /\ putPending[1].skills = Value(profile).skills

\* C20: at most one profile request (GET load or PUT save) is in flight at
\* any time: a load can start only on mount or from the error view, a save
\* only from editing while no save is in progress, and Cancel and field
\* edits are not possible while saving; hence a response arrives only while
\* its own request is the newest one, and a PUT response finds the form as it
\* was sent, never the edits of a later editing session.
C20_OneRequestInFlight ==
  /\ getPending + Len(putPending) <= 1
  /\ getPending > 0 => (loading /\ profile = None /\ ~isEditMode /\ ~saving)
  /\ putPending # <<>>
       => (saving /\ isEditMode /\ ~loading /\ putPending[1] = SaveBody)
  /\ saving => Len(putPending) = 1
  /\ (loading /\ mounted) => getPending = 1
  /\ ENABLED (Mount \/ Retry)
       => /\ getPending + Len(putPending) = 0
          /\ lastOp = "init" \/ ErrorEnd
  /\ (~isEditMode \/ saving \/ getPending + Len(putPending) > 0)
       => ~ENABLED OnSave
  /\ saving
       => ~ENABLED \/ OnCancelEdit
                   \/ OnSave
                   \/ EnterEdit
                   \/ \E field \in Fields :
                        \E v \in FieldInputs(field) : UpdateForm(field, v)
  /\ lastOp = "saveFail" => form = prevForm

\* A save is in flight, alone, carrying edits of the current editing
\* session, after an earlier load was answered.
C20_Witness ==
  /\ lastOp = "onSave"
  /\ saving
  /\ getPending = 0
  /\ Len(putPending) = 1
  /\ form # editSeed
  /\ putPending[1] = SaveBody

\* C21: in every reachable state the save-error message and the save-success
\* message are not both set; a save-error message is present only while the
\* view is in editing mode; and a field edit (updateForm) or Cancel leaves
\* both messages cleared.
C21_SaveMessages ==
  /\ ~(saveError # None /\ saveMessage # None)
  /\ saveError # None => isEditMode
  /\ lastOp \in {"updateForm", "onCancelEdit"}
       => (saveError = None /\ saveMessage = None)

\* A save failed on the profile with the third privacy value: the error is
\* set, in editing mode, and no success message is.
C21_Witness ==
  /\ lastOp = "saveFail"
  /\ saveError # None
  /\ saveMessage = None
  /\ isEditMode
  /\ profile # None
  /\ editSeed = GetDefaultFormState(Value(profile))
  /\ Value(profile).privacy = Some("friends")

\* C22: the gender label and the gender badge style are determined
\* consistently from the stored gender: male, female and other are shown as
\* 'Male', 'Female', 'Other' with badge-info, badge-secondary, badge-accent;
\* whenever the label is 'Male' the badge is badge-info and whenever it is
\* 'Female' the badge is badge-secondary; and an unrecognized value is shown
\* with its first letter capitalized.
C22_GenderConsistent ==
  /\ ProfileGender = GenderMale
       => (formattedGender = LabelMale /\ genderBadgeStyles = "badge-info")
  /\ ProfileGender = GenderFemale
       => /\ formattedGender = LabelFemale
          /\ genderBadgeStyles = "badge-secondary"
  /\ ProfileGender = GenderOther
       => (formattedGender = LabelOther /\ genderBadgeStyles = "badge-accent")
  /\ ProfileGender = <<"q">> => formattedGender = <<"Q">>
  /\ formattedGender = LabelMale => genderBadgeStyles = "badge-info"
  /\ formattedGender = LabelFemale => genderBadgeStyles = "badge-secondary"

====
